---- MODULE Spec2Model ----
(***************************************************************************)
(* PayPalBillingAgreementService (src/index.js, lines 1-203): a static     *)
(* class holding a configuration and a cached axios instance, and four     *)
(* async operations that send HTTP requests to the PayPal REST API.        *)
(*                                                                         *)
(* Every async operation is cut at its awaits: one action runs the code    *)
(* from the call (or from the arrival of a response) up to the next        *)
(* request that is awaited, or up to the return/throw.  Several logical    *)
(* flows may be in flight at once and interleave at the awaits, as on the  *)
(* JavaScript event loop.  The remote service is the environment: it       *)
(* answers each request with a transport/non-2xx error or with a 2xx body. *)
(*                                                                         *)
(* JavaScript objects are records; a property that is absent is a field    *)
(* that is not in the record's DOMAIN.  Reading an absent property gives   *)
(* Undefined, reading a property OF Undefined throws a TypeError.          *)
(***************************************************************************)
EXTENDS Integers, Sequences, FiniteSets, TLC

(***************************************************************************)
(* Bounds of the model.                                                    *)
(***************************************************************************)
NumFlows == 2        \* logical flows that may call the service
MaxExchanges == 3    \* token exchanges counted before the model stops sending more
MaxLinks == 2        \* length of the links array of an agreement-token response
MaxPending == 2      \* invocations pending at once in the concurrent specification

Flows == 1..NumFlows

(***************************************************************************)
(* JavaScript values.                                                      *)
(***************************************************************************)
Null == [null |-> TRUE]
Undefined == "undefined"

Has(o, k) == k \in DOMAIN o
Get(o, k) == IF Has(o, k) THEN o[k] ELSE Undefined

\* !v is false exactly for a non-empty string (the values here are strings
\* or undefined)
Truthy(v) == v # Undefined /\ v # ""

\* new Error(`${prefix}: ${error.message}`): a message is the sequence of its
\* colon-separated parts
Wrap(prefix, message) == <<prefix>> \o message

(***************************************************************************)
(* Endpoints and fixed strings of the source.                              *)
(***************************************************************************)
SANDBOX_URL == "https://api-m.sandbox.paypal.com"
LIVE_URL == "https://api-m.paypal.com"
TokenPath == "/v1/oauth2/token"
AgreementTokenPath == "/v1/billing-agreements/agreement-tokens"
AgreementPath == "/v1/billing-agreements/agreements"
VaultPath == "/v3/vault/payment-tokens"
OrderPath == "/v2/checkout/orders"

NotConfiguredMessage == <<"PayPal configuration not initialized. Call configure() first.">>
ApprovalUrlNotFound == <<"Approval URL not found">>
AgreementIdNotFound == <<"Billing Agreement ID not found">>
PaymentTokenNotReturned == <<"Payment token not returned">>
OrderIdNotFound == <<"Order ID not found">>

\* message of the TypeError thrown by reading property k of undefined
TypeErrorReading(k) == <<"Cannot read properties of undefined", k>>

(***************************************************************************)
(* Inputs of the callers and answers of the remote service.                *)
(***************************************************************************)
ClientIds == {"id1", "id2"}
Secrets == {"s1"}

\* configure(clientId, secret) and configure(clientId, secret, sandbox)
ConfigureArgs ==
    [clientId : ClientIds, secret : Secrets]
    \cup [clientId : ClientIds, secret : Secrets, sandbox : BOOLEAN]

Amounts == {"55.00", "-1"}
Currencies == {"EUR"}

Calls ==
    {[op |-> "getAuthInstance"]}
    \cup {[op |-> "createBillingAgreementToken",
           returnUrl |-> "https://x/ok", cancelUrl |-> "https://x/cancel"]}
    \cup {[op |-> "executeBillingAgreement", token |-> "T1"]}
    \cup [op : {"chargeCustomer"}, payerId : {"PAYER1"}, agreementId : {"AG1"},
          amount : Amounts]
    \cup [op : {"chargeCustomer"}, payerId : {"PAYER1"}, agreementId : {"AG1"},
          amount : Amounts, currency : Currencies]

\* axios rejects on a transport error and on a non-2xx status
TransportErrors ==
    {[kind |-> "error", message |-> "Network Error"],
     [kind |-> "error", message |-> "Request failed with status code 401"]}

Ok(d) == [kind |-> "ok", data |-> d]

\* the access tokens the token endpoint issues
AccessTokens == {"A1", "A2"}

TokenResponses ==
    TransportErrors
    \cup {Ok([access_token |-> t, token_type |-> "Bearer"]) : t \in AccessTokens}
    \cup {Ok([token_type |-> "Bearer"])}

(***************************************************************************)
(* State.                                                                  *)
(***************************************************************************)
VARIABLES
    config,          \* static config: Null or [BASE_URL, CLIENT_ID, SECRET]
    authInstance,    \* static authInstance: Null or the cached axios instance
    pc,              \* pc[f]: where flow f is suspended
    call,            \* call[f]: the operation flow f invoked, with its arguments
    instance,        \* instance[f]: the local const instance of the operation
    paymentToken,    \* paymentToken[f]: the local const of chargeCustomer
    sent,            \* sent[f]: the requests the current invocation has sent, in order
    received,        \* received[f]: the answers to them, in the same order
    result,          \* result[f]: what the invocation returned or threw
    exchanges,       \* history: number of token-exchange requests sent
    authFailed,      \* history: some token exchange was rejected by axios
    reconfigured,    \* history: configure() changed the configuration while a
                     \* session was cached and no token exchange has been sent since
    executed         \* history: the agreement ids executeBillingAgreement has returned

vars == <<config, authInstance, pc, call, instance, paymentToken, sent, received,
          result, exchanges, authFailed, reconfigured, executed>>

NoCall == [op |-> "none"]
NoResult == [status |-> "none"]
Returned(v) == [status |-> "ok", value |-> v]
Thrown(m) == [status |-> "error", message |-> m]

Init ==
    /\ config = Null
    /\ authInstance = Null
    /\ pc = [f \in Flows |-> "idle"]
    /\ call = [f \in Flows |-> NoCall]
    /\ instance = [f \in Flows |-> Null]
    /\ paymentToken = [f \in Flows |-> Undefined]
    /\ sent = [f \in Flows |-> <<>>]
    /\ received = [f \in Flows |-> <<>>]
    /\ result = [f \in Flows |-> NoResult]
    /\ exchanges = 0
    /\ authFailed = FALSE
    /\ reconfigured = FALSE
    /\ executed = {}

(***************************************************************************)
(* configure(clientId, secret, sandbox = true)                             *)
(***************************************************************************)
BaseUrl(args) ==
    IF (IF Has(args, "sandbox") THEN args.sandbox ELSE TRUE)
    THEN SANDBOX_URL ELSE LIVE_URL

\* the static fields after configure(): authInstance is not assigned
ConfigureEffect(args, oldAuth) ==
    [config |-> [BASE_URL |-> BaseUrl(args),
                 CLIENT_ID |-> args.clientId,
                 SECRET |-> args.secret],
     authInstance |-> oldAuth]

Configure(args) ==
    /\ config' = ConfigureEffect(args, authInstance).config
    /\ authInstance' = ConfigureEffect(args, authInstance).authInstance
    /\ reconfigured' = (reconfigured \/ (authInstance # Null /\ config' # config))
    /\ UNCHANGED <<pc, call, instance, paymentToken, sent, received, result,
                   exchanges, authFailed, executed>>

(***************************************************************************)
(* The outcome of a piece of code that runs without suspending: it throws, *)
(* it returns, or it posts a request and awaits the answer.                *)
(***************************************************************************)
Throw(m) == [kind |-> "throw", message |-> m]
Return(v) == [kind |-> "return", value |-> v]
Post(r) == [kind |-> "post", request |-> r]

(***************************************************************************)
(* getAuthInstance()                                                       *)
(***************************************************************************)
\* axios.post(`${BASE_URL}/v1/oauth2/token`, "grant_type=client_credentials",
\*            {auth: {username, password}, headers})
TokenRequest(cfg) ==
    [url |-> <<cfg.BASE_URL, TokenPath>>,
     auth |-> [username |-> cfg.CLIENT_ID, password |-> cfg.SECRET],
     ContentType |-> "application/x-www-form-urlencoded",
     body |-> "grant_type=client_credentials"]

\* axios.create({baseURL, headers: {Authorization: `Bearer ${data.access_token}`,
\* "Content-Type": "application/json"}}); an absent access_token is
\* interpolated as the text "undefined"
CreateInstance(cfg, data) ==
    [baseURL |-> cfg.BASE_URL,
     Authorization |-> <<"Bearer", Get(data, "access_token")>>,
     ContentType |-> "application/json"]

\* instance.post(path, body)
InstancePost(inst, path, body) ==
    [url |-> <<inst.baseURL, path>>,
     Authorization |-> inst.Authorization,
     ContentType |-> inst.ContentType,
     body |-> body]

\* getAuthInstance without its cache check
GetAuthStartNoCache(cfg, auth) ==
    IF cfg = Null THEN Throw(NotConfiguredMessage)
    ELSE Post(TokenRequest(cfg))

\* getAuthInstance without its configuration check: the template string
\* reads BASE_URL of null inside the try block
GetAuthStartNoConfigCheck(cfg, auth) ==
    IF auth # Null THEN Return(auth)
    ELSE IF cfg = Null
    THEN Throw(Wrap("Authentication failed",
                    <<"Cannot read properties of null", "BASE_URL">>))
    ELSE Post(TokenRequest(cfg))

\* getAuthInstance up to its await: the configuration check, the cache
\* check, the token request
GetAuthStart(cfg, auth) ==
    IF cfg = Null THEN Throw(NotConfiguredMessage)
    ELSE IF auth # Null THEN Return(auth)
    ELSE Post(TokenRequest(cfg))

\* getAuthInstance building and caching an instance whatever the answer
GetAuthFinishAlwaysCaches(cfg, r) ==
    IF r.kind = "error"
    THEN Return(CreateInstance(cfg, [token_type |-> "Bearer"]))
    ELSE Return(CreateInstance(cfg, r.data))

\* getAuthInstance after its await: the instance is built from the answer
\* and cached, or the rejection is rethrown
GetAuthFinish(cfg, r) ==
    IF r.kind = "error"
    THEN Throw(Wrap("Authentication failed", <<r.message>>))
    ELSE Return(CreateInstance(cfg, r.data))

(***************************************************************************)
(* createBillingAgreementToken(returnUrl, cancelUrl)                       *)
(***************************************************************************)
AgreementTokenBody(c) ==
    [name |-> "Post Payment Profile",
     description |-> "Flexible Payment Agreement",
     start_date |-> "Date.now() + 60000",
     payer |-> [payment_method |-> "PAYPAL"],
     plan |-> [type |-> "MERCHANT_INITIATED_BILLING",
               merchant_preferences |->
                   [return_url |-> c.returnUrl,
                    cancel_url |-> c.cancelUrl,
                    accepted_pymt_type |-> "ANY",
                    setup_fee |-> [value |-> "0.00", currency_code |-> "USD"]]]]

\* a scan that keeps the last link whose rel is "approval_url"
FindLastApprovalUrl(links) ==
    IF \E i \in 1..Len(links) : Get(links[i], "rel") = "approval_url"
    THEN CHOOSE i \in 1..Len(links) :
            /\ Get(links[i], "rel") = "approval_url"
            /\ \A j \in (i + 1)..Len(links) : Get(links[j], "rel") # "approval_url"
    ELSE 0

\* Array.prototype.find: the index of the first link whose rel is
\* "approval_url", 0 when there is none
FindApprovalUrl(links) ==
    IF \E i \in 1..Len(links) : Get(links[i], "rel") = "approval_url"
    THEN CHOOSE i \in 1..Len(links) :
            /\ Get(links[i], "rel") = "approval_url"
            /\ \A j \in 1..(i - 1) : Get(links[j], "rel") # "approval_url"
    ELSE 0

\* the body of the try block after the await, on a 2xx answer
ApprovalUrlOf(data) ==
    IF ~Has(data, "links") THEN Throw(TypeErrorReading("find"))
    ELSE IF FindApprovalUrl(data.links) = 0 THEN Throw(ApprovalUrlNotFound)
    ELSE Return(Get(data.links[FindApprovalUrl(data.links)], "href"))

(***************************************************************************)
(* executeBillingAgreement(token)                                          *)
(***************************************************************************)
AgreementBody(c) == [token_id |-> c.token]

\* the body of the try block after the await, on a 2xx answer
AgreementOf(data) ==
    IF ~Truthy(Get(data, "id")) THEN Throw(AgreementIdNotFound)
    ELSE IF ~Has(data, "payer") THEN Throw(TypeErrorReading("payer_info"))
    ELSE IF ~Has(data.payer, "payer_info") THEN Throw(TypeErrorReading("payer_id"))
    ELSE Return([id |-> data.id,
                 payer_id |-> Get(data.payer.payer_info, "payer_id")])

(***************************************************************************)
(* chargeCustomer(payerId, agreementId, amount, currency = "USD")          *)
(***************************************************************************)
CurrencyOf(c) == IF Has(c, "currency") THEN c.currency ELSE "USD"

\* a vault body that names the payer instead of the agreement
VaultBodyPayer(c) ==
    [payment_source |->
        [token |-> [type |-> "BILLING_AGREEMENT", id |-> c.payerId]]]

VaultBody(c) ==
    [payment_source |->
        [token |-> [type |-> "BILLING_AGREEMENT", id |-> c.agreementId]]]

\* an order body that ignores the currency argument
OrderBodyUsd(c, token) ==
    [intent |-> "CAPTURE",
     purchase_units |->
        <<[amount |-> [currency_code |-> "USD", value |-> c.amount],
           description |-> "Charge amount at delivery"]>>,
     payment_source |->
        [token |-> [id |-> token, type |-> "PAYMENT_METHOD_TOKEN"]]]

OrderBody(c, token) ==
    [intent |-> "CAPTURE",
     purchase_units |->
        <<[amount |-> [currency_code |-> CurrencyOf(c), value |-> c.amount],
           description |-> "Charge amount at delivery"]>>,
     payment_source |->
        [token |-> [id |-> token, type |-> "PAYMENT_METHOD_TOKEN"]]]

\* step 1 without the check of tokenResponse.data.id
PaymentTokenUnchecked(data) == Return(Get(data, "id"))

\* step 1 after its await, on a 2xx answer: the payment token, or the throw
PaymentTokenOf(data) ==
    IF ~Truthy(Get(data, "id")) THEN Throw(PaymentTokenNotReturned)
    ELSE Return(data.id)

\* step 2 without the check of orderResponse.data.id
OrderUnchecked(data) == Return(data)

\* step 2 after its await, on a 2xx answer
OrderOf(data) ==
    IF ~Truthy(Get(data, "id")) THEN Throw(OrderIdNotFound)
    ELSE Return(data)

(***************************************************************************)
(* The catch block of each operation.                                      *)
(***************************************************************************)
CatchPrefix(c) ==
    CASE c.op = "createBillingAgreementToken" ->
            "Failed to create billing agreement token"
      [] c.op = "executeBillingAgreement" -> "Failed to execute billing agreement"
      [] c.op = "chargeCustomer" -> "Payment failed"

\* what the caller of operation c sees when message m is thrown inside it;
\* getAuthInstance called directly has no further catch
Rethrow(c, m) ==
    IF c.op = "getAuthInstance" THEN Thrown(m) ELSE Thrown(Wrap(CatchPrefix(c), m))

(***************************************************************************)
(* Answers of the remote service to the four API requests.                 *)
(***************************************************************************)
Links == [rel : {"approval_url", "self"}, href : {"h1", "h2"}]
LinkArrays == UNION {[1..n -> Links] : n \in 0..MaxLinks}

AgreementTokenResponses ==
    TransportErrors
    \cup {Ok([token_id |-> "BA-1", links |-> l]) : l \in LinkArrays}
    \cup {Ok([token_id |-> "BA-1"])}

Payers ==
    {[payer_info |-> [payer_id |-> "PAYER1"]],
     [payer_info |-> [email |-> "p@x"]],
     [payment_method |-> "PAYPAL"]}

AgreementResponses ==
    TransportErrors
    \cup {Ok([state |-> "ACTIVE"])}
    \cup {Ok([id |-> i, state |-> "ACTIVE"]) : i \in {"", "AG1"}}
    \cup {Ok([state |-> "ACTIVE", payer |-> p]) : p \in Payers}
    \cup {Ok([id |-> i, state |-> "ACTIVE", payer |-> p]) :
            i \in {"", "AG1"}, p \in Payers}

VaultResponses ==
    TransportErrors
    \cup {Ok([id |-> t]) : t \in {"", "TOK1", "TOK2"}}
    \cup {Ok([customer |-> "c"])}

OrderResponses ==
    TransportErrors
    \cup {Ok([id |-> "ORDER1", status |-> s]) : s \in {"COMPLETED", "PENDING"}}
    \cup {Ok([id |-> "", status |-> "COMPLETED"]), Ok([status |-> "COMPLETED"])}

(***************************************************************************)
(* Steps of a flow.                                                        *)
(***************************************************************************)
\* the first request of an operation, sent right after
\* const instance = await this.getAuthInstance()
FirstAwait(c) ==
    CASE c.op = "createBillingAgreementToken" -> "awaitAgreementToken"
      [] c.op = "executeBillingAgreement" -> "awaitAgreement"
      [] c.op = "chargeCustomer" -> "awaitVault"

FirstRequest(c, inst) ==
    CASE c.op = "createBillingAgreementToken" ->
            InstancePost(inst, AgreementTokenPath, AgreementTokenBody(c))
      [] c.op = "executeBillingAgreement" ->
            InstancePost(inst, AgreementPath, AgreementBody(c))
      [] c.op = "chargeCustomer" ->
            InstancePost(inst, VaultPath, VaultBody(c))

\* the invocation of flow f ends: its promise settles with res
Settle(f, res) ==
    /\ pc' = [pc EXCEPT ![f] = "done"]
    /\ result' = [result EXCEPT ![f] = res]

\* the code after getAuthInstance() has given inst to operation c, which had
\* sent the requests in log
Proceed(f, c, inst, log) ==
    IF c.op = "getAuthInstance"
    THEN /\ Settle(f, Returned(inst))
         /\ sent' = [sent EXCEPT ![f] = log]
         /\ UNCHANGED instance
    ELSE /\ pc' = [pc EXCEPT ![f] = FirstAwait(c)]
         /\ instance' = [instance EXCEPT ![f] = inst]
         /\ sent' = [sent EXCEPT ![f] = Append(log, FirstRequest(c, inst))]
         /\ UNCHANGED result

\* flow f calls operation c: the code runs up to its first await
Begin(f, c) ==
    /\ pc[f] = "idle"
    /\ call' = [call EXCEPT ![f] = c]
    /\ LET o == GetAuthStart(config, authInstance) IN
       CASE o.kind = "throw" ->
              /\ Settle(f, Rethrow(c, o.message))
              /\ UNCHANGED <<instance, sent, exchanges, reconfigured>>
         [] o.kind = "return" ->
              /\ Proceed(f, c, o.value, <<>>)
              /\ UNCHANGED <<exchanges, reconfigured>>
         [] o.kind = "post" ->
              /\ exchanges < MaxExchanges
              /\ pc' = [pc EXCEPT ![f] = "awaitToken"]
              /\ sent' = [sent EXCEPT ![f] = <<o.request>>]
              /\ exchanges' = exchanges + 1
              /\ reconfigured' = FALSE
              /\ UNCHANGED <<instance, result>>
    /\ UNCHANGED <<config, authInstance, paymentToken, received, authFailed,
                   executed>>

GetAuthInstance(f) == Begin(f, [op |-> "getAuthInstance"])

CreateBillingAgreementToken(f, c) ==
    c.op = "createBillingAgreementToken" /\ Begin(f, c)

ExecuteBillingAgreement(f, c) ==
    c.op = "executeBillingAgreement" /\ Begin(f, c)

ChargeCustomer(f, c) ==
    c.op = "chargeCustomer" /\ Begin(f, c)

\* the token exchange of flow f is answered with r
TokenResponse(f, r) ==
    /\ pc[f] = "awaitToken"
    /\ received' = [received EXCEPT ![f] = Append(@, r)]
    /\ LET o == GetAuthFinish(config, r) IN
       CASE o.kind = "throw" ->
              /\ Settle(f, Rethrow(call[f], o.message))
              /\ authFailed' = TRUE
              /\ UNCHANGED <<authInstance, instance, sent>>
         [] o.kind = "return" ->
              /\ authInstance' = o.value
              /\ Proceed(f, call[f], o.value, sent[f])
              /\ UNCHANGED authFailed
    /\ UNCHANGED <<config, call, paymentToken, exchanges, reconfigured, executed>>

\* an awaited instance.post rejects: the try block throws the axios error
Rejected(r) == Throw(<<r.message>>)

\* the promise of operation c settles with the outcome o of its try block
Outcome(c, o) ==
    IF o.kind = "throw" THEN Rethrow(c, o.message) ELSE Returned(o.value)

AgreementTokenResponse(f, r) ==
    /\ pc[f] = "awaitAgreementToken"
    /\ received' = [received EXCEPT ![f] = Append(@, r)]
    /\ Settle(f, Outcome(call[f], IF r.kind = "error" THEN Rejected(r)
                                  ELSE ApprovalUrlOf(r.data)))
    /\ UNCHANGED <<config, authInstance, call, instance, paymentToken, sent,
                   exchanges, authFailed, reconfigured, executed>>

AgreementResponse(f, r) ==
    /\ pc[f] = "awaitAgreement"
    /\ received' = [received EXCEPT ![f] = Append(@, r)]
    /\ LET o == IF r.kind = "error" THEN Rejected(r) ELSE AgreementOf(r.data) IN
       /\ Settle(f, Outcome(call[f], o))
       /\ executed' = IF o.kind = "return" THEN executed \cup {o.value.id}
                                            ELSE executed
    /\ UNCHANGED <<config, authInstance, call, instance, paymentToken, sent,
                   exchanges, authFailed, reconfigured>>

VaultResponse(f, r) ==
    /\ pc[f] = "awaitVault"
    /\ received' = [received EXCEPT ![f] = Append(@, r)]
    /\ LET o == IF r.kind = "error" THEN Rejected(r) ELSE PaymentTokenOf(r.data) IN
       CASE o.kind = "throw" ->
              /\ Settle(f, Rethrow(call[f], o.message))
              /\ UNCHANGED <<paymentToken, sent>>
         [] o.kind = "return" ->
              /\ paymentToken' = [paymentToken EXCEPT ![f] = o.value]
              /\ sent' = [sent EXCEPT ![f] =
                    Append(@, InstancePost(instance[f], OrderPath,
                                           OrderBody(call[f], o.value)))]
              /\ pc' = [pc EXCEPT ![f] = "awaitOrder"]
              /\ UNCHANGED result
    /\ UNCHANGED <<config, authInstance, call, instance, exchanges, authFailed,
                   reconfigured, executed>>

OrderResponse(f, r) ==
    /\ pc[f] = "awaitOrder"
    /\ received' = [received EXCEPT ![f] = Append(@, r)]
    /\ Settle(f, Outcome(call[f], IF r.kind = "error" THEN Rejected(r)
                                  ELSE OrderOf(r.data)))
    /\ UNCHANGED <<config, authInstance, call, instance, paymentToken, sent,
                   exchanges, authFailed, reconfigured, executed>>

\* the caller has taken the result of flow f and may call again
Complete(f) ==
    /\ pc[f] = "done"
    /\ pc' = [pc EXCEPT ![f] = "idle"]
    /\ call' = [call EXCEPT ![f] = NoCall]
    /\ instance' = [instance EXCEPT ![f] = Null]
    /\ paymentToken' = [paymentToken EXCEPT ![f] = Undefined]
    /\ sent' = [sent EXCEPT ![f] = <<>>]
    /\ received' = [received EXCEPT ![f] = <<>>]
    /\ result' = [result EXCEPT ![f] = NoResult]
    /\ UNCHANGED <<config, authInstance, exchanges, authFailed, reconfigured,
                   executed>>

(***************************************************************************)
(* Specifications.                                                         *)
(***************************************************************************)
Invocation(f) ==
    \/ GetAuthInstance(f)
    \/ \E c \in Calls : CreateBillingAgreementToken(f, c)
    \/ \E c \in Calls : ExecuteBillingAgreement(f, c)
    \/ \E c \in Calls : ChargeCustomer(f, c)

Response(f) ==
    \/ \E r \in TokenResponses : TokenResponse(f, r)
    \/ \E r \in AgreementTokenResponses : AgreementTokenResponse(f, r)
    \/ \E r \in AgreementResponses : AgreementResponse(f, r)
    \/ \E r \in VaultResponses : VaultResponse(f, r)
    \/ \E r \in OrderResponses : OrderResponse(f, r)

\* sequential use: configure() and the operations are called only while no
\* invocation is pending
Quiescent == \A f \in Flows : pc[f] = "idle"

SeqNext ==
    \/ Quiescent /\ \E a \in ConfigureArgs : Configure(a)
    \/ Quiescent /\ \E f \in Flows : Invocation(f)
    \/ \E f \in Flows : Response(f)
    \/ \E f \in Flows : Complete(f)

SeqSpec == Init /\ [][SeqNext]_vars

\* concurrent use: flows call at any time and interleave at their awaits.
\* Every operation starts with the same await this.getAuthInstance(); here
\* the flows call getAuthInstance and executeBillingAgreement under one
\* configuration, the token exchange is rejected or answered 2xx (with
\* either access token, or without one), and the agreement request has one
\* failure and one complete answer.
NetworkError == [kind |-> "error", message |-> "Network Error"]

FewConfigureArgs == {[clientId |-> "id1", secret |-> "s1"]}

FewInvocation(f) ==
    \/ GetAuthInstance(f)
    \/ \E c \in Calls : ExecuteBillingAgreement(f, c)

FewResponses(f) ==
    \/ \E r \in {NetworkError} \cup (TokenResponses \ TransportErrors) :
          TokenResponse(f, r)
    \/ \E r \in {NetworkError,
                 Ok([id |-> "AG1", state |-> "ACTIVE",
                     payer |-> [payer_info |-> [payer_id |-> "PAYER1"]]])} :
          AgreementResponse(f, r)

Pending == {f \in Flows : pc[f] # "idle"}

Next ==
    \/ \E a \in FewConfigureArgs : Configure(a)
    \/ Cardinality(Pending) < MaxPending /\ \E f \in Flows : FewInvocation(f)
    \/ \E f \in Flows : FewResponses(f)
    \/ \E f \in Flows : Complete(f)

Spec == Init /\ [][Next]_vars

(***************************************************************************)
(* Properties.                                                             *)
(***************************************************************************)
PathOf(req) == req.url[2]

\* the requests of the current invocation of f that have been answered
Answered(f) == 1..Len(received[f])

ApiRequests(f) == {i \in 1..Len(sent[f]) : PathOf(sent[f][i]) # TokenPath}

Mentions(message, part) == \E i \in 1..Len(message) : message[i] = part

\* C1: once configure() has changed the configuration while a session was
\* cached, no request other
\* than a token exchange is sent until a token exchange has been sent: the
\* operation that follows the reconfiguration exchanges a token first.
C1_ReconfigureForcesTokenExchange ==
    \A f \in Flows : (reconfigured /\ pc[f] # "idle") => ApiRequests(f) = {}

\* C2: in sequential use, as long as no token exchange has been rejected, at
\* most one token exchange is sent in total, exactly one once a session is
\* cached, every invocation that found the cache filled sent none, and
\* getAuthInstance returns the cached session.
C2_OneTokenExchange ==
    /\ ~authFailed => exchanges <= 1
    /\ (~authFailed /\ authInstance # Null) => exchanges = 1
    /\ \A f \in Flows :
        (pc[f] = "done" /\ call[f].op = "getAuthInstance"
            /\ result[f].status = "ok")
        => result[f].value = authInstance

\* a second call of getAuthInstance has returned the session from the cache,
\* without sending anything, after another invocation had populated it
C2_Witness ==
    \E f \in Flows :
        /\ pc[f] = "done"
        /\ call[f].op = "getAuthInstance"
        /\ result[f].status = "ok"
        /\ sent[f] = <<>>
        /\ exchanges = 1
        /\ ~authFailed

\* C3: when the token exchange is rejected (transport error, non-2xx) or its
\* answer has no access_token, the invocation fails with an authentication
\* error and no session is cached.
C3_AuthenticationFails ==
    \A f \in Flows : \A i \in Answered(f) :
        (/\ PathOf(sent[f][i]) = TokenPath
         /\ \/ received[f][i].kind = "error"
            \/ ~Has(received[f][i].data, "access_token"))
        => /\ pc[f] = "done"
           /\ result[f].status = "error"
           /\ Mentions(result[f].message, "Authentication failed")
           /\ authInstance = Null

\* C4: while configure() has never been called, every invocation fails with
\* the not-configured error and no HTTP request has been sent.
C4_NotConfigured ==
    config = Null =>
        /\ exchanges = 0
        /\ \A f \in Flows :
            pc[f] # "idle" =>
                /\ pc[f] = "done"
                /\ result[f].status = "error"
                /\ result[f].message[Len(result[f].message)] =
                       "PayPal configuration not initialized. Call configure() first."
                /\ sent[f] = <<>>

\* chargeCustomer has been called before any configure() and has failed
C4_Witness ==
    \E f \in Flows :
        /\ config = Null
        /\ pc[f] = "done"
        /\ call[f].op = "chargeCustomer"
        /\ result[f].status = "error"

\* the answered requests of the current invocation of f that went to path
AnsweredAt(f, path) == {i \in Answered(f) : PathOf(sent[f][i]) = path}

NoApprovalLink(data) ==
    \/ ~Has(data, "links")
    \/ \A j \in 1..Len(data.links) : data.links[j].rel # "approval_url"

\* C5: when the 2xx agreement-token answer has no link with rel
\* "approval_url" (links empty, without such an entry, or absent),
\* createBillingAgreementToken fails with the approval-URL-not-found error.
C5_ApprovalUrlNotFound ==
    \A f \in Flows : \A i \in AnsweredAt(f, AgreementTokenPath) :
        (received[f][i].kind = "ok" /\ NoApprovalLink(received[f][i].data))
        => /\ result[f].status = "error"
           /\ Mentions(result[f].message, "Approval URL not found")

\* C6: when the links array of the 2xx agreement-token answer has an entry
\* with rel "approval_url", createBillingAgreementToken returns the href of
\* the first such entry.
C6_ReturnsFirstApprovalUrl ==
    \A f \in Flows : \A i \in AnsweredAt(f, AgreementTokenPath) :
        (received[f][i].kind = "ok" /\ ~NoApprovalLink(received[f][i].data))
        => LET links == received[f][i].data.links IN
           \E j \in 1..Len(links) :
              /\ links[j].rel = "approval_url"
              /\ \A k \in 1..(j - 1) : links[k].rel # "approval_url"
              /\ result[f] = Returned(links[j].href)

\* the approval link came after another link and its href was returned
C6_Witness ==
    \E f \in Flows : \E i \in AnsweredAt(f, AgreementTokenPath) :
        /\ received[f][i].kind = "ok"
        /\ Has(received[f][i].data, "links")
        /\ Len(received[f][i].data.links) = 2
        /\ received[f][i].data.links[1].rel = "self"
        /\ received[f][i].data.links[2].rel = "approval_url"
        /\ result[f].status = "ok"

\* the value at payer.payer_info.payer_id of an answer
PayerIdAt(data) ==
    IF Has(data, "payer") /\ Has(Get(data, "payer"), "payer_info")
    THEN Get(data.payer.payer_info, "payer_id")
    ELSE Undefined

\* C7: executeBillingAgreement fails with the agreement-id-not-found error
\* when the 2xx answer has no id, and for every answer that has a (non-empty)
\* id it returns {id, payer_id} with payer_id the value at
\* payer.payer_info.payer_id.
C7_AgreementResult ==
    \A f \in Flows : \A i \in AnsweredAt(f, AgreementPath) :
        received[f][i].kind = "ok"
        => LET data == received[f][i].data IN
           /\ ~Has(data, "id")
              => /\ result[f].status = "error"
                 /\ Mentions(result[f].message, "Billing Agreement ID not found")
           /\ (Has(data, "id") /\ Get(data, "id") # "")
              => result[f] =
                    Returned([id |-> data.id, payer_id |-> PayerIdAt(data)])

\* C8: when the 2xx vault answer has no id, chargeCustomer fails with the
\* payment-token-not-returned error and has sent no order request.
C8_PaymentTokenNotReturned ==
    \A f \in Flows : \A i \in AnsweredAt(f, VaultPath) :
        (received[f][i].kind = "ok" /\ ~Has(received[f][i].data, "id"))
        => /\ pc[f] = "done"
           /\ result[f].status = "error"
           /\ Mentions(result[f].message, "Payment token not returned")
           /\ \A k \in 1..Len(sent[f]) : PathOf(sent[f][k]) # OrderPath

\* a vault answer without id has ended chargeCustomer
C8_Witness ==
    \E f \in Flows : \E i \in AnsweredAt(f, VaultPath) :
        /\ received[f][i].kind = "ok"
        /\ ~Has(received[f][i].data, "id")
        /\ pc[f] = "done"
        /\ call[f].op = "chargeCustomer"

\* C9: when the 2xx order answer has no id, chargeCustomer fails with the
\* order-id-not-found error; and every order request was sent right after
\* the vault request of the same invocation was answered with an id.
C9_OrderIdNotFound ==
    \A f \in Flows :
        /\ \A i \in AnsweredAt(f, OrderPath) :
            (received[f][i].kind = "ok" /\ ~Has(received[f][i].data, "id"))
            => /\ pc[f] = "done"
               /\ result[f].status = "error"
               /\ Mentions(result[f].message, "Order ID not found")
        /\ \A i \in 1..Len(sent[f]) :
            PathOf(sent[f][i]) = OrderPath
            => /\ i > 1
               /\ PathOf(sent[f][i - 1]) = VaultPath
               /\ i - 1 \in Answered(f)
               /\ received[f][i - 1].kind = "ok"
               /\ Has(received[f][i - 1].data, "id")

\* an order answer without id has ended chargeCustomer
C9_Witness ==
    \E f \in Flows : \E i \in AnsweredAt(f, OrderPath) :
        /\ received[f][i].kind = "ok"
        /\ ~Has(received[f][i].data, "id")
        /\ pc[f] = "done"
        /\ result[f].status = "error"

\* C10: when chargeCustomer returns, it returns the data of the order answer,
\* and its order request carried the id of the vault answer of the same
\* invocation as payment_source.token.id, the amount argument as value and
\* the currency argument ("USD" when omitted) as currency_code.
C10_ChargeForwards ==
    \A f \in Flows :
        (pc[f] = "done" /\ call[f].op = "chargeCustomer"
            /\ result[f].status = "ok")
        => LET n == Len(sent[f]) IN
           /\ n >= 2
           /\ Len(received[f]) = n
           /\ PathOf(sent[f][n]) = OrderPath
           /\ PathOf(sent[f][n - 1]) = VaultPath
           /\ result[f].value = received[f][n].data
           /\ sent[f][n].body.payment_source.token.id = received[f][n - 1].data.id
           /\ sent[f][n].body.purchase_units[1].amount.value = call[f].amount
           /\ sent[f][n].body.purchase_units[1].amount.currency_code =
                  (IF Has(call[f], "currency") THEN call[f].currency ELSE "USD")

\* a charge of a negative amount in EUR has returned an order
C10_Witness ==
    \E f \in Flows :
        /\ pc[f] = "done"
        /\ call[f].op = "chargeCustomer"
        /\ result[f].status = "ok"
        /\ call[f].amount = "-1"
        /\ Has(call[f], "currency")
        /\ received[f][Len(received[f])].data.id = "ORDER1"

\* C11 (as claimed): a vault payment-token request names only an agreement
\* id that executeBillingAgreement has returned before.
C11_ChargeAfterExecution ==
    \A f \in Flows : \A i \in 1..Len(sent[f]) :
        PathOf(sent[f][i]) = VaultPath
        => sent[f][i].body.payment_source.token.id \in executed

\* C11 (amended): the client keeps no record of executed agreements;
\* chargeCustomer, once it has an instance, has sent a vault payment-token
\* request that names exactly the agreementId argument, as a
\* BILLING_AGREEMENT token, whether or not that id was ever returned by
\* executeBillingAgreement.
C11_ChargeNamesArgument ==
    \A f \in Flows :
        /\ \A i \in 1..Len(sent[f]) :
            PathOf(sent[f][i]) = VaultPath
            => /\ call[f].op = "chargeCustomer"
               /\ sent[f][i].body.payment_source.token =
                      [type |-> "BILLING_AGREEMENT", id |-> call[f].agreementId]
        /\ (call[f].op = "chargeCustomer" /\ instance[f] # Null)
            => \E i \in 1..Len(sent[f]) : PathOf(sent[f][i]) = VaultPath

\* a vault request for AG1 is pending although no agreement was ever executed
C11_Witness ==
    \E f \in Flows :
        /\ pc[f] = "awaitVault"
        /\ executed = {}
        /\ sent[f][Len(sent[f])].body.payment_source.token.id = "AG1"

\* C12: in concurrent use nothing serialises the first population of the
\* cache (the witness: two invocations have each exchanged a token), but
\* once a session is cached it stays cached and no invocation sends a
\* further token exchange.
C12_NoExchangeOnceCached ==
    [][authInstance # Null
         => (exchanges' = exchanges /\ authInstance' # Null)]_vars

\* two invocations passed the cache check while it was empty, both
\* exchanges were answered 2xx, and the cache holds one session
C12_Witness ==
    \E f, g \in Flows :
        /\ f # g
        /\ pc[f] = "done" /\ pc[g] = "done"
        /\ Len(received[f]) >= 1 /\ Len(received[g]) >= 1
        /\ PathOf(sent[f][1]) = TokenPath /\ received[f][1].kind = "ok"
        /\ PathOf(sent[g][1]) = TokenPath /\ received[g][1].kind = "ok"
        /\ exchanges = 2
        /\ ~authFailed
        /\ ~reconfigured
        /\ authInstance # Null

\* the field an operation needs of a 2xx answer to the request at path is
\* absent from data
RequiredMissing(path, data) ==
    CASE path = TokenPath -> ~Has(data, "access_token")
      [] path = AgreementTokenPath -> NoApprovalLink(data)
      [] path = AgreementPath -> ~Has(data, "id")
      [] path = VaultPath -> ~Has(data, "id")
      [] path = OrderPath -> ~Has(data, "id")

\* C13: once a request of an invocation is rejected, or its 2xx answer lacks
\* the required field, the invocation has ended with an error and that
\* request is the last it has sent.
C13_FailureIsTerminal ==
    \A f \in Flows : \A i \in Answered(f) :
        (\/ received[f][i].kind = "error"
         \/ RequiredMissing(PathOf(sent[f][i]), received[f][i].data))
        => /\ pc[f] = "done"
           /\ result[f].status = "error"
           /\ Len(sent[f]) = i

\* C14: every request other than the token exchange goes to the base URL of
\* the cached session and carries its Authorization header, and the bearer
\* token in it is an access token issued by the token endpoint.
C14_BearerOfCachedSession ==
    \A f \in Flows : \A i \in ApiRequests(f) :
        /\ authInstance # Null
        /\ sent[f][i].url[1] = authInstance.baseURL
        /\ sent[f][i].Authorization = authInstance.Authorization
        /\ sent[f][i].Authorization[1] = "Bearer"
        /\ sent[f][i].Authorization[2] \in AccessTokens

\* the part of C14 that sequential use does satisfy: the requests carry the
\* base URL and the header of the cached session
C14_CarriesCachedSession ==
    \A f \in Flows : \A i \in ApiRequests(f) :
        /\ authInstance # Null
        /\ sent[f][i].url[1] = authInstance.baseURL
        /\ sent[f][i].Authorization = authInstance.Authorization

\* flow f receives in this step an answer other than a 2xx token answer
FailsOrApiAnswer(f) ==
    /\ Len(received'[f]) = Len(received[f]) + 1
    /\ ~(pc[f] = "awaitToken" /\ received'[f][Len(received'[f])].kind = "ok")

\* C15: a step in which a token exchange is rejected leaves config and the
\* cache unchanged, and the cache empty; a step in which an API request is
\* answered (rejected or not) leaves config and the cache unchanged.
C15_FailureLeavesCache ==
    [][\A f \in Flows :
         FailsOrApiAnswer(f)
         => /\ authInstance' = authInstance
            /\ config' = config
            /\ pc[f] = "awaitToken" => authInstance' = Null]_vars

\* after a rejected token exchange the next invocation found the cache
\* empty and is exchanging a token again
C15_Witness ==
    \E f \in Flows :
        /\ pc[f] = "awaitToken"
        /\ authFailed
        /\ exchanges = 2
        /\ authInstance = Null

====
